---- MODULE Spec2Model ----
(***************************************************************************)
(* Model of the worker of Pitch_Changher.py: ProcessorThread.run and its   *)
(* two helpers _process_audio and _process_video.  Under Spec one          *)
(* ProcessorThread is constructed with a JobConfig and run once; under     *)
(* AppSpec PitchShifterApp.run_job starts the workers and the slots        *)
(* on_progress, on_done and on_fail receive their queued signals.          *)
(* Paths are sequences of                                                  *)
(* one-character strings so that os.path.splitext, str.lower and           *)
(* str.endswith are computed, not assumed.  The library and external calls *)
(* (librosa.load, pitch_shift, sf.write, pydub export, ffmpeg) are opaque: *)
(* each either returns or raises, chosen nondeterministically.             *)
(***************************************************************************)
EXTENDS Integers, Sequences, FiniteSets, TLC

VARIABLES
    pc,                 \* position of the worker in run()
    cfg,                \* self.cfg : JobConfig (out_path is reassigned by the helpers)
    req_out,            \* the out_path the JobConfig was constructed with
    media,              \* the audio the input file holds: channels, samples per channel
    emitted,            \* signals emitted so far, in order
    calls,              \* library / external-process invocations made so far, in order
    fs,                 \* files and directories created by this job: path -> status
    in_audio_path,      \* argument of the active _process_audio call
    out_audio_path,     \* argument of the active _process_audio call
    caller,             \* who called _process_audio: "run" or "video"
    y_list,             \* local of _process_audio: the channel buffers loaded
    processed_channels, \* local of _process_audio: the pitch_shift results so far
    exc,                \* message of the exception being propagated
    thread,             \* PitchShifterApp.thread: "none" or "thread"
    running,            \* QThread.isRunning() of the worker
    progress,           \* value of the progress bar
    status_label,       \* text of the status label
    delivered,          \* how many of the worker's signals the slots have handled
    stale,              \* queued signals of earlier workers, not handled yet
    started,            \* workers started by run_job so far
    refused             \* submissions run_job refused so far

workervars == <<pc, cfg, req_out, media, emitted, calls, fs, in_audio_path,
                out_audio_path, caller, y_list, processed_channels, exc>>

appvars == <<thread, running, progress, status_label, delivered, stale, started,
             refused>>

vars == <<workervars, appvars>>

----------------------------------------------------------------------------
(* Bounds *)

MaxChannels == 2

\* accepted and refused submissions of run_job (AppSpec)
MaxStarted == 2
MaxRefused == 1

----------------------------------------------------------------------------
(* Program constants *)

MinSamples == 2048

SUPPORTED_AUDIO_EXTS ==
    { <<".","w","a","v">>, <<".","m","p","3">>, <<".","o","g","g">>,
      <<".","f","l","a","c">>, <<".","m","4","a">>, <<".","a","a","c">> }

SUPPORTED_VIDEO_EXTS ==
    { <<".","m","p","4">>, <<".","m","o","v">>, <<".","m","k","v">> }

----------------------------------------------------------------------------
(* String functions used by the worker *)

UpperChars == <<"A","B","C","D","E","F","G","H","I","J","K","L","M",
                "N","O","P","Q","R","S","T","U","V","W","X","Y","Z">>
LowerChars == <<"a","b","c","d","e","f","g","h","i","j","k","l","m",
                "n","o","p","q","r","s","t","u","v","w","x","y","z">>

LowerChar(c) ==
    IF \E i \in 1..Len(UpperChars) : UpperChars[i] = c
    THEN LowerChars[CHOOSE i \in 1..Len(UpperChars) : UpperChars[i] = c]
    ELSE c

\* str.lower()
Lower(s) == [i \in 1..Len(s) |-> LowerChar(s[i])]

\* str.rfind(c), 1-based, 0 when c does not occur
RFind(s, c) ==
    IF \E i \in 1..Len(s) : s[i] = c
    THEN CHOOSE i \in 1..Len(s) : s[i] = c /\ \A j \in (i+1)..Len(s) : s[j] # c
    ELSE 0

\* os.path.splitext(p)[1]: the suffix from the last dot of the last path
\* component, unless that component consists of leading dots up to it
SplitExt(p) ==
    LET sepIndex == RFind(p, "/")
        dotIndex == RFind(p, ".")
    IN  IF /\ dotIndex > sepIndex
           /\ \E k \in (sepIndex+1)..(dotIndex-1) : p[k] # "."
        THEN SubSeq(p, dotIndex, Len(p))
        ELSE <<>>

\* str.endswith(suffix)
EndsWith(s, suffix) ==
    /\ Len(s) >= Len(suffix)
    /\ SubSeq(s, Len(s) - Len(suffix) + 1, Len(s)) = suffix

DotWav == <<".","w","a","v">>
DotMp3 == <<".","m","p","3">>
DotMp4 == <<".","m","p","4">>

----------------------------------------------------------------------------
(* Temporary resources *)

\* tempfile.TemporaryDirectory() as td
td == <<"/","t">>
temp_audio == td \o <<"/","o","r","i","g","_","a","u","d","i","o",".","w","a","v">>
temp_shifted == td \o <<"/","s","h","i","f","t","e","d",".","w","a","v">>

\* tempfile.NamedTemporaryFile(suffix=".wav", delete=False).name
tmp_path == <<"/","x">> \o DotWav

----------------------------------------------------------------------------
(* Job requests *)

InPaths ==
    { <<"a",".","w","a","v">>, <<"a",".","M","P","3">>, <<"a",".","f","l","a","c">>,
      <<"a",".","m","p","4">>, <<"a",".","M","o","v">>, <<"a",".","m","k","v">>,
      <<"a",".","t","x","t">>, <<"a">>, <<".","m","p","4">> }

OutPaths ==
    { <<"o",".","w","a","v">>, <<"o",".","W","A","V">>, <<"o",".","m","p","3">>,
      <<"o",".","M","p","3">>, <<"o",".","o","g","g">>, <<"o">>,
      <<"o",".","m","p","4">>, <<"o",".","M","P","4">>, <<"o",".","m","o","v">>,
      <<"o",".","m","k","v">>, <<".","m","p","4">>, <<".","w","a","v">> }

\* sample counts per channel that librosa.load may return
SampleCounts == {0, 1, MinSamples - 1, MinSamples, MinSamples + 1}

\* the audio an input file may hold
Media == [nch : 1..MaxChannels, n : SampleCounts]

\* the samples librosa.load returns for a channel: quantised to -1, 0, 1 and
\* different from channel to channel
Sample(ch, i) == ((i + ch) % 3) - 1

Signal(ch, n) == [i \in 1..n |-> Sample(ch, i)]

\* librosa.effects.pitch_shift is opaque: its result is known only as the
\* result for the buffer it was handed
pitch_shift(sig) == [of |-> sig]

\* outcome of a call that writes a file: it returns, or it raises before
\* creating the file, or it raises leaving what it had written so far
WriteOutcomes == {"ok", "fail_nofile", "fail_partial"}

----------------------------------------------------------------------------
(* Signals and call records *)

Progressed(v) == [sig |-> "progressed", v |-> v]
FinishedOk(p) == [sig |-> "finished_ok", path |-> p]
Failed(m)     == [sig |-> "failed", msg |-> m]

Call(op, path, rc) == [op |-> op, path |-> path, rc |-> rc]

\* file system update: path now holds a file (or directory) of that status
Put(f, path, status) ==
    [p \in DOMAIN f \cup {path} |-> IF p = path THEN status ELSE f[p]]

Remove(f, paths) == [p \in DOMAIN f \ paths |-> f[p]]

\* the effect of a writing call with the given outcome
WriteFile(f, path, r) ==
    CASE r = "ok"           -> Put(f, path, "complete")
      [] r = "fail_partial" -> Put(f, path, "partial")
      [] OTHER              -> f

Rc(r) == IF r = "ok" THEN 0 ELSE 1

----------------------------------------------------------------------------
(* Helpers of the worker *)

Emit(sigs) == emitted \o sigs

\* run(): the if / elif / else on the lower-cased input extension
ClassifyNoReject(ext) ==
    IF ext \in SUPPORTED_VIDEO_EXTS THEN "video" ELSE "audio"

Classify(ext) ==
    IF ext \in SUPPORTED_VIDEO_EXTS THEN "video"
    ELSE IF ext \in SUPPORTED_AUDIO_EXTS THEN "audio"
    ELSE "unsupported"

\* leaving the `with tempfile.TemporaryDirectory() as td` block, normally or
\* by an exception: the directory and everything in it is removed
TemporaryDirectoryKept(f) == f

TemporaryDirectoryExit(f) == Remove(f, {td, temp_audio, temp_shifted})

\* an exception leaving _process_audio passes through the with block of
\* _process_video when that is the caller
Unwind(f) == IF caller = "video" THEN TemporaryDirectoryExit(f) ELSE f

\* _process_video: `if p1.returncode != 0: raise`
ExtractIgnored(rc) == FALSE

ExtractFailed(rc) == rc # 0

\* _process_video: `if not out_path.lower().endswith(".mp4"): out_path += ".mp4"`
CoerceUnlessVideoExt(p) ==
    IF Lower(SplitExt(p)) \in SUPPORTED_VIDEO_EXTS THEN p ELSE p \o DotMp4

CoerceMp4(p) ==
    IF ~EndsWith(Lower(p), DotMp4) THEN p \o DotMp4 ELSE p

\* _process_audio, else branch: `if not out_audio_path.lower().endswith(".wav")`
CoerceWavNever(p) == p

CoerceWav(p) ==
    IF ~EndsWith(Lower(p), DotWav) THEN p \o DotWav ELSE p

\* np.pad(sig, (0, pad)): pad zeros after the samples
Zeros(pad) == [i \in 1..pad |-> 0]

\* the channel buffer handed to pitch_shift: `if n < 2048: sig = np.pad(...)`
PaddedInFront(sig) ==
    IF Len(sig) < MinSamples THEN Zeros(MinSamples - Len(sig)) \o sig ELSE sig

Padded(sig) ==
    IF Len(sig) < MinSamples THEN sig \o Zeros(MinSamples - Len(sig)) ELSE sig

\* run(): the two signals that end a successful job
FinishWithoutHundred(path) == << FinishedOk(path) >>

FinishSignals(path) == << Progressed(100), FinishedOk(path) >>

----------------------------------------------------------------------------
(* Initial state: a ProcessorThread constructed with a JobConfig, not started *)

\* PitchShifterApp.__init__: no thread, progress bar at 0, nothing queued
AppIdle ==
    /\ thread = "none"
    /\ running = FALSE
    /\ progress = 0
    /\ status_label = "Ready"
    /\ delivered = 0
    /\ stale = <<>>
    /\ started = 0
    /\ refused = 0

Init ==
    /\ AppIdle
    /\ pc = "idle"
    /\ \E i \in InPaths, o \in OutPaths :
          /\ cfg = [in_path |-> i, out_path |-> o]
          /\ req_out = o
    /\ media \in Media
    /\ emitted = <<>>
    /\ calls = <<>>
    /\ fs = <<>>
    /\ in_audio_path = <<>>
    /\ out_audio_path = <<>>
    /\ caller = "none"
    /\ y_list = <<>>
    /\ processed_channels = <<>>
    /\ exc = ""

----------------------------------------------------------------------------
(* ProcessorThread.run *)

\* run(): emit 5, classify the input by extension, dispatch or raise
Run ==
    /\ pc = "idle"
    /\ LET ext  == Lower(SplitExt(cfg.in_path))
           kind == Classify(ext)
       IN  /\ emitted' = Emit(<< Progressed(5) >>)
           /\ CASE kind = "video" ->
                     /\ pc' = "v_extract"
                     /\ UNCHANGED <<in_audio_path, out_audio_path, caller, exc>>
                [] kind = "audio" ->
                     /\ pc' = "a_load"
                     /\ in_audio_path' = cfg.in_path
                     /\ out_audio_path' = cfg.out_path
                     /\ caller' = "run"
                     /\ exc' = exc
                [] OTHER ->
                     /\ pc' = "raised"
                     /\ exc' = "Unsupported file extension"
                     /\ UNCHANGED <<in_audio_path, out_audio_path, caller>>
    /\ UNCHANGED <<cfg, req_out, calls, fs, y_list, processed_channels>>
    /\ UNCHANGED <<appvars, media>>

\* run(): after the pipeline returned: emit 100, then finished_ok
RunFinish ==
    /\ pc = "run_finish"
    /\ emitted' = Emit(FinishSignals(cfg.out_path))
    /\ pc' = "succeeded"
    /\ UNCHANGED <<cfg, req_out, calls, fs, in_audio_path, out_audio_path,
                   caller, y_list, processed_channels, exc>>
    /\ UNCHANGED <<appvars, media>>

\* run(): `except Exception as e: self.failed.emit(...)`
RunExceptFallsThrough ==
    /\ pc = "raised"
    /\ emitted' = Emit(<< Failed(exc) >>)
    /\ pc' = "run_finish"
    /\ UNCHANGED <<cfg, req_out, calls, fs, in_audio_path, out_audio_path,
                   caller, y_list, processed_channels, exc>>
    /\ UNCHANGED <<appvars, media>>

RunExcept ==
    /\ pc = "raised"
    /\ emitted' = Emit(<< Failed(exc) >>)
    /\ pc' = "failed"
    /\ UNCHANGED <<cfg, req_out, calls, fs, in_audio_path, out_audio_path,
                   caller, y_list, processed_channels, exc>>
    /\ UNCHANGED <<appvars, media>>

----------------------------------------------------------------------------
(* ProcessorThread._process_audio *)

\* emit 10, librosa.load, emit 30, split into channels
ProcessAudioLoad ==
    /\ pc = "a_load"
    /\ \/ /\ calls' = Append(calls, Call("load", in_audio_path, 0))
          /\ emitted' = Emit(<< Progressed(10), Progressed(30) >>)
          /\ y_list' = [ch \in 1..media.nch |-> Signal(ch, media.n)]
          /\ processed_channels' = <<>>
          /\ pc' = "a_shift"
          /\ UNCHANGED <<fs, exc>>
       \/ /\ calls' = Append(calls, Call("load", in_audio_path, 1))
          /\ emitted' = Emit(<< Progressed(10) >>)
          /\ fs' = Unwind(fs)
          /\ exc' = "load failed"
          /\ pc' = "raised"
          /\ UNCHANGED <<y_list, processed_channels>>
    /\ UNCHANGED <<cfg, req_out, in_audio_path, out_audio_path, caller>>
    /\ UNCHANGED <<appvars, media>>

\* one iteration of `for sig in y_list`: pad, pitch_shift, append
ProcessAudioShift ==
    /\ pc = "a_shift"
    /\ Len(processed_channels) < Len(y_list)
    /\ LET sig == Padded(y_list[Len(processed_channels) + 1])
       IN  \/ /\ calls' = Append(calls, Call("pitch_shift", in_audio_path, 0))
              /\ processed_channels' = Append(processed_channels, pitch_shift(sig))
              /\ pc' = pc
              /\ UNCHANGED <<fs, exc, y_list>>
           \/ /\ calls' = Append(calls, Call("pitch_shift", in_audio_path, 1))
              /\ fs' = Unwind(fs)
              /\ exc' = "pitch_shift failed"
              /\ pc' = "raised"
              /\ y_list' = <<>>
              /\ processed_channels' = <<>>
    /\ UNCHANGED <<cfg, req_out, emitted, in_audio_path, out_audio_path, caller>>
    /\ UNCHANGED <<appvars, media>>

\* after the loop: stack the channels, emit 70
ProcessAudioStack ==
    /\ pc = "a_shift"
    /\ Len(processed_channels) = Len(y_list)
    /\ emitted' = Emit(<< Progressed(70) >>)
    /\ pc' = "a_encode"
    /\ UNCHANGED <<cfg, req_out, calls, fs, in_audio_path, out_audio_path,
                   caller, y_list, processed_channels, exc>>
    /\ UNCHANGED <<appvars, media>>

\* where _process_audio returns to
AfterAudio == IF caller = "video" THEN "v_mux" ELSE "run_finish"

\* out_ext == ".wav": sf.write(out_audio_path), emit 90
EncodeWav ==
    /\ Lower(SplitExt(out_audio_path)) = DotWav
    /\ \E r \in WriteOutcomes :
          /\ calls' = Append(calls, Call("sf.write", out_audio_path, Rc(r)))
          /\ IF r = "ok"
             THEN /\ fs' = WriteFile(fs, out_audio_path, r)
                  /\ emitted' = Emit(<< Progressed(90) >>)
                  /\ pc' = AfterAudio
                  /\ exc' = exc
             ELSE /\ fs' = Unwind(WriteFile(fs, out_audio_path, r))
                  /\ emitted' = emitted
                  /\ pc' = "raised"
                  /\ exc' = "sf.write failed"
    /\ UNCHANGED cfg

\* out_ext == ".mp3": temporary wav, sf.write, pydub export, os.remove, emit 90
EncodeMp3 ==
    /\ Lower(SplitExt(out_audio_path)) = DotMp3
    /\ LET created == Put(fs, tmp_path, "partial")
       IN  \/ \E r \in WriteOutcomes \ {"ok"} :
                 \* sf.write(tmp_path) raises
                 /\ calls' = Append(calls, Call("sf.write", tmp_path, Rc(r)))
                 /\ fs' = Unwind(created)
                 /\ emitted' = emitted
                 /\ pc' = "raised"
                 /\ exc' = "sf.write failed"
           \/ \E r \in WriteOutcomes \ {"ok"} :
                 \* the export raises
                 /\ calls' = calls \o << Call("sf.write", tmp_path, 0),
                                         Call("export", out_audio_path, Rc(r)) >>
                 /\ fs' = Unwind(WriteFile(Put(created, tmp_path, "complete"),
                                           out_audio_path, r))
                 /\ emitted' = emitted
                 /\ pc' = "raised"
                 /\ exc' = "mp3 export failed"
           \/ /\ calls' = calls \o << Call("sf.write", tmp_path, 0),
                                      Call("export", out_audio_path, 0) >>
              /\ fs' = Remove(WriteFile(created, out_audio_path, "ok"), {tmp_path})
              /\ emitted' = Emit(<< Progressed(90) >>)
              /\ pc' = AfterAudio
              /\ exc' = exc
    /\ UNCHANGED cfg

\* any other extension: force ".wav", store the corrected path in cfg, sf.write
EncodeOther ==
    /\ Lower(SplitExt(out_audio_path)) \notin {DotWav, DotMp3}
    /\ LET path == CoerceWav(out_audio_path)
       IN  /\ cfg' = IF path # out_audio_path
                     THEN [cfg EXCEPT !.out_path = path] ELSE cfg
           /\ \E r \in WriteOutcomes :
                 /\ calls' = Append(calls, Call("sf.write", path, Rc(r)))
                 /\ IF r = "ok"
                    THEN /\ fs' = WriteFile(fs, path, r)
                         /\ emitted' = Emit(<< Progressed(90) >>)
                         /\ pc' = AfterAudio
                         /\ exc' = exc
                    ELSE /\ fs' = Unwind(WriteFile(fs, path, r))
                         /\ emitted' = emitted
                         /\ pc' = "raised"
                         /\ exc' = "sf.write failed"

\* the dispatch on the output extension; _process_audio then returns or
\* raises, and its locals are gone
ProcessAudioEncode ==
    /\ pc = "a_encode"
    /\ \/ EncodeWav
       \/ EncodeMp3
       \/ EncodeOther
    /\ y_list' = <<>>
    /\ processed_channels' = <<>>
    /\ UNCHANGED <<req_out, in_audio_path, out_audio_path, caller>>
    /\ UNCHANGED <<appvars, media>>

----------------------------------------------------------------------------
(* ProcessorThread._process_video *)

\* emit 12, enter the temporary directory, run the ffmpeg extract, emit 40,
\* call _process_audio(temp_audio, temp_shifted)
ProcessVideoExtract ==
    /\ pc = "v_extract"
    /\ LET entered == Put(fs, td, "dir")
       IN  \E rc \in {0, 1}, r \in WriteOutcomes :
             /\ (rc = 0) = (r = "ok")
             /\ calls' = Append(calls, Call("extract", temp_audio, rc))
             /\ IF ExtractFailed(rc)
                THEN /\ fs' = TemporaryDirectoryExit(WriteFile(entered, temp_audio, r))
                     /\ emitted' = Emit(<< Progressed(12) >>)
                     /\ pc' = "raised"
                     /\ exc' = "ffmpeg extract audio failed"
                     /\ UNCHANGED <<in_audio_path, out_audio_path, caller>>
                ELSE /\ fs' = WriteFile(entered, temp_audio, r)
                     /\ emitted' = Emit(<< Progressed(12), Progressed(40) >>)
                     /\ pc' = "a_load"
                     /\ in_audio_path' = temp_audio
                     /\ out_audio_path' = temp_shifted
                     /\ caller' = "video"
                     /\ exc' = exc
    /\ UNCHANGED <<cfg, req_out, y_list, processed_channels>>
    /\ UNCHANGED <<appvars, media>>

\* emit 70, coerce the output path, run the ffmpeg mux, emit 95, leave the
\* temporary directory
ProcessVideoMux ==
    /\ pc = "v_mux"
    /\ LET out_path == CoerceMp4(cfg.out_path)
       IN  /\ cfg' = IF out_path # cfg.out_path
                     THEN [cfg EXCEPT !.out_path = out_path] ELSE cfg
           /\ \E r \in WriteOutcomes :
                 /\ calls' = Append(calls, Call("mux", out_path, Rc(r)))
                 /\ fs' = TemporaryDirectoryExit(WriteFile(fs, out_path, r))
                 /\ IF Rc(r) # 0
                    THEN /\ emitted' = Emit(<< Progressed(70) >>)
                         /\ pc' = "raised"
                         /\ exc' = "ffmpeg mux failed"
                    ELSE /\ emitted' = Emit(<< Progressed(70), Progressed(95) >>)
                         /\ pc' = "run_finish"
                         /\ exc' = exc
    /\ UNCHANGED <<req_out, in_audio_path, out_audio_path, caller, y_list,
                   processed_channels>>
    /\ UNCHANGED <<appvars, media>>

----------------------------------------------------------------------------

Next ==
    \/ Run
    \/ RunFinish
    \/ RunExcept
    \/ ProcessAudioLoad
    \/ ProcessAudioShift
    \/ ProcessAudioStack
    \/ ProcessAudioEncode
    \/ ProcessVideoExtract
    \/ ProcessVideoMux

Spec == Init /\ [][Next]_vars

----------------------------------------------------------------------------
(* PitchShifterApp: run_job and the slots *)

\* the JobConfigs export_file builds: an input set_input_file accepted and
\* the path the save dialog returned
AppJobs ==
    { [in_path |-> <<"a",".","w","a","v">>, out_path |-> <<"o",".","m","p","3">>],
      [in_path |-> <<"a",".","w","a","v">>, out_path |-> <<"o">>],
      [in_path |-> <<"a",".","m","p","4">>, out_path |-> <<"o">>] }

\* the audio of the files the app is given
AppMedia == { [nch |-> MaxChannels, n |-> 1] }

NoJob == [in_path |-> <<>>, out_path |-> <<>>]

\* PitchShifterApp.__init__: no ProcessorThread exists yet
AppInit ==
    /\ AppIdle
    /\ pc = "none"
    /\ cfg = NoJob
    /\ req_out = <<>>
    /\ media \in AppMedia
    /\ emitted = <<>>
    /\ calls = <<>>
    /\ fs = <<>>
    /\ in_audio_path = <<>>
    /\ out_audio_path = <<>>
    /\ caller = "none"
    /\ y_list = <<>>
    /\ processed_channels = <<>>
    /\ exc = ""

\* run_job: `if self.thread and self.thread.isRunning()`
BusyNever == FALSE

Busy == thread # "none" /\ running

\* the worker's signals still queued for the slots
Pending == SubSeq(emitted, delivered + 1, Len(emitted))

\* run_job while a worker is running: the Busy box, and return
RunJobRefused ==
    /\ refused < MaxRefused
    /\ \E c \in AppJobs :
          /\ Busy
          /\ refused' = refused + 1
    /\ UNCHANGED <<workervars, thread, running, progress, status_label,
                   delivered, stale, started>>

\* run_job otherwise: reset the progress bar, construct a ProcessorThread
\* for cfg, connect its signals and start it
RunJobStart ==
    /\ started < MaxStarted
    /\ \E c \in AppJobs :
          /\ ~Busy
          /\ progress' = 0
          /\ status_label' = "Processing"
          /\ thread' = "thread"
          /\ cfg' = c
          /\ req_out' = c.out_path
    /\ media' \in AppMedia
    /\ pc' = "idle"
    /\ running' = TRUE
    /\ started' = started + 1
    /\ stale' = stale \o Pending
    /\ delivered' = 0
    /\ emitted' = <<>>
    /\ calls' = <<>>
    /\ fs' = <<>>
    /\ in_audio_path' = <<>>
    /\ out_audio_path' = <<>>
    /\ caller' = "none"
    /\ y_list' = <<>>
    /\ processed_channels' = <<>>
    /\ exc' = ""
    /\ UNCHANGED refused

\* run() has returned and the QThread finishes: isRunning() becomes false
ThreadFinished ==
    /\ pc \in {"succeeded", "failed"}
    /\ running
    /\ running' = FALSE
    /\ UNCHANGED <<workervars, thread, progress, status_label, delivered,
                   stale, started, refused>>

\* the signal the event loop hands to a slot next: those of earlier workers
\* first, in the order they were emitted
HasSignal == stale # <<>> \/ delivered < Len(emitted)
NextSignal == IF stale # <<>> THEN Head(stale) ELSE emitted[delivered + 1]

\* the signal is taken off the queue
Dequeue ==
    IF stale # <<>>
    THEN stale' = Tail(stale) /\ delivered' = delivered
    ELSE stale' = stale /\ delivered' = delivered + 1

\* on_progress(v)
OnProgress ==
    /\ HasSignal
    /\ NextSignal.sig = "progressed"
    /\ progress' = NextSignal.v
    /\ Dequeue
    /\ UNCHANGED <<workervars, thread, running, status_label, started, refused>>

\* on_done(out_path)
OnDone ==
    /\ HasSignal
    /\ NextSignal.sig = "finished_ok"
    /\ progress' = 100
    /\ status_label' = "Done"
    /\ Dequeue
    /\ UNCHANGED <<workervars, thread, running, started, refused>>

\* on_fail(msg)
OnFail ==
    /\ HasSignal
    /\ NextSignal.sig = "failed"
    /\ progress' = 0
    /\ status_label' = "Failed"
    /\ Dequeue
    /\ UNCHANGED <<workervars, thread, running, started, refused>>

AppNext ==
    \/ RunJobRefused
    \/ RunJobStart
    \/ ThreadFinished
    \/ OnProgress
    \/ OnDone
    \/ OnFail
    \/ Run
    \/ RunFinish
    \/ RunExcept
    \/ ProcessAudioLoad
    \/ ProcessAudioShift
    \/ ProcessAudioStack
    \/ ProcessAudioEncode
    \/ ProcessVideoExtract
    \/ ProcessVideoMux

AppSpec == AppInit /\ [][AppNext]_vars

----------------------------------------------------------------------------
(* Vocabulary of the properties *)

Terminal == {"succeeded", "failed"}

InExt == Lower(SplitExt(cfg.in_path))
IsVideoJob == InExt \in SUPPORTED_VIDEO_EXTS
IsAudioJob == InExt \in SUPPORTED_AUDIO_EXTS /\ ~IsVideoJob
IsUnsupportedJob == InExt \notin (SUPPORTED_AUDIO_EXTS \cup SUPPORTED_VIDEO_EXTS)

IsTick(e) == e.sig = "progressed"
IsTerminalSignal(e) == e.sig \in {"finished_ok", "failed"}

\* the progress values emitted so far, in order
Ticks ==
    LET P == SelectSeq(emitted, IsTick)
    IN  [i \in 1..Len(P) |-> P[i].v]

TempPaths == {td, temp_audio, temp_shifted}

Called(op) == \E i \in 1..Len(calls) : calls[i].op = op

----------------------------------------------------------------------------
(* C1 *)

\* C1: the progress values of a job never decrease and all lie in 0..100.
ProgressMonotonic ==
    \A i \in 1..Len(Ticks) :
        /\ Ticks[i] \in 0..100
        /\ \A j \in (i+1)..Len(Ticks) : Ticks[i] <= Ticks[j]

----------------------------------------------------------------------------
(* C2 *)

\* C2: in a video job every tick after the extract-done tick 40 and up to the
\* mux-done tick 95 lies in 40..95.
VideoTicksRemapped ==
    IsVideoJob =>
        \A i \in 1..Len(Ticks) :
            ( /\ \E j \in 1..(i-1) : Ticks[j] = 40
              /\ ~ \E k \in 1..(i-1) : Ticks[k] = 95 )
            => Ticks[i] \in 40..95

----------------------------------------------------------------------------
(* C3 *)

\* C3: once an audio job is in a terminal state, the intermediate temporary
\* wav of the mp3 encode does not exist.
Mp3TempRemoved ==
    (IsAudioJob /\ pc \in Terminal) => tmp_path \notin DOMAIN fs

----------------------------------------------------------------------------
(* C4 *)

\* C4: once a video job is in a terminal state, the temporary directory and
\* the two temporary files in it do not exist.
VideoTempDirRemoved ==
    (IsVideoJob /\ pc \in Terminal) => DOMAIN fs \cap TempPaths = {}

\* a video job failed at the mux, after the directory held both files
VideoTempDirRemovedWitness ==
    /\ IsVideoJob
    /\ pc = "failed"
    /\ \E i \in 1..Len(calls) : calls[i].op = "mux" /\ calls[i].rc # 0
    /\ \E i \in 1..Len(calls) : calls[i] = Call("sf.write", temp_shifted, 0)
    /\ td \notin DOMAIN fs

----------------------------------------------------------------------------
(* C5 *)

\* C5: a failed job leaves no file it wrote at the output path.
NoPartialOutput ==
    pc = "failed" => (cfg.out_path \notin DOMAIN fs /\ req_out \notin DOMAIN fs)

----------------------------------------------------------------------------
(* C6 *)

\* C6 as stated: a job with an unsupported input extension ends having
\* emitted no progress tick and made no call.
UnsupportedEmitsNoTick ==
    (IsUnsupportedJob /\ pc \in Terminal) => (Ticks = <<>> /\ calls = <<>>)

\* C6 amended: a job with an unsupported input extension, once started, is
\* on its way to Failed, has emitted the single tick 5 and nothing else, and
\* has made no decode, transform, encode or external-process call.
UnsupportedFailsBeforeProcessing ==
    (IsUnsupportedJob /\ pc # "idle") =>
        /\ pc \in {"raised", "failed"}
        /\ Ticks = << 5 >>
        /\ calls = <<>>
        /\ DOMAIN fs = {}
        /\ \A i \in 1..Len(emitted) : emitted[i].sig # "finished_ok"

UnsupportedFailsWitness ==
    /\ IsUnsupportedJob
    /\ pc = "failed"
    /\ emitted = << Progressed(5), Failed("Unsupported file extension") >>

----------------------------------------------------------------------------
(* C7 *)

ExtractOkBefore(i) ==
    \E j \in 1..(i-1) : calls[j].op = "extract" /\ calls[j].rc = 0

\* C7: in a video job the decode / transform / write of the shifted audio
\* happen only after an extract that exited with zero, the mux only after the
\* shifted audio was written; after a non-zero extract nothing else is
\* invoked, no shifted file exists and the job is failing.
VideoStagesInOrder ==
    IsVideoJob =>
        /\ \A i \in 1..Len(calls) :
              calls[i].op \in {"load", "pitch_shift", "sf.write", "mux"}
                  => ExtractOkBefore(i)
        /\ \A i \in 1..Len(calls) :
              calls[i].op = "mux" =>
                  \E j \in 1..(i-1) : calls[j] = Call("sf.write", temp_shifted, 0)
        /\ temp_shifted \in DOMAIN fs =>
              \E i \in 1..Len(calls) : calls[i].op = "extract" /\ calls[i].rc = 0
        /\ (\E i \in 1..Len(calls) : calls[i].op = "extract" /\ calls[i].rc # 0) =>
              /\ Len(calls) = 1
              /\ temp_shifted \notin DOMAIN fs
              /\ pc \in {"raised", "failed"}

\* the extract exited non-zero and the job failed
VideoExtractFailedWitness ==
    /\ IsVideoJob
    /\ pc = "failed"
    /\ calls = << Call("extract", temp_audio, 1) >>
    /\ exc = "ffmpeg extract audio failed"

----------------------------------------------------------------------------
(* C8 *)

\* C8: at most one terminal signal is emitted and nothing follows it; the job
\* is in a terminal state exactly when it has emitted one, finished_ok for
\* Succeeded and failed for Failed; a failed job has emitted no 100.
OneTerminalSignal ==
    /\ \A i \in 1..Len(emitted) :
          IsTerminalSignal(emitted[i]) => i = Len(emitted)
    /\ (pc \in Terminal) <=>
          (Len(emitted) > 0 /\ IsTerminalSignal(emitted[Len(emitted)]))
    /\ pc = "succeeded" => emitted[Len(emitted)].sig = "finished_ok"
    /\ pc = "failed" =>
          /\ emitted[Len(emitted)].sig = "failed"
          /\ \A i \in 1..Len(Ticks) : Ticks[i] # 100

\* a job that failed late: the audio encode raised after tick 70
OneTerminalSignalWitness ==
    /\ pc = "failed"
    /\ exc = "sf.write failed"
    /\ \E i \in 1..Len(Ticks) : Ticks[i] = 70

----------------------------------------------------------------------------
(* C9 *)

\* C9: a finished_ok signal is immediately preceded by the tick 100.
SuccessAfterHundred ==
    /\ \A i \in 1..Len(emitted) :
          emitted[i].sig = "finished_ok" =>
              (i > 1 /\ emitted[i-1] = Progressed(100))
    /\ pc = "succeeded" => emitted[Len(emitted)].sig = "finished_ok"

SuccessAfterHundredWitness ==
    /\ pc = "succeeded"
    /\ Ticks[Len(Ticks)] = 100
    /\ emitted[Len(emitted)] = FinishedOk(cfg.out_path)

----------------------------------------------------------------------------
(* C10 *)

\* the path carried by the success signal
Reported == emitted[Len(emitted)].path

\* C10 as stated: the reported path of a successful video job is the
\* requested path when that has a recognized video extension, and the
\* requested path with .mp4 appended otherwise.
VideoRecognizedExtKept ==
    (IsVideoJob /\ pc = "succeeded") =>
        Reported = IF Lower(SplitExt(req_out)) \in SUPPORTED_VIDEO_EXTS
                   THEN req_out
                   ELSE req_out \o DotMp4

\* the spellings of a trailing ".mp4", whatever the case of its letters
Mp4Suffixes ==
    { <<".", m, p, "4">> : m \in {"m", "M"}, p \in {"p", "P"} }

HasMp4Suffix(p) ==
    /\ Len(p) >= 4
    /\ << p[Len(p)-3], p[Len(p)-2], p[Len(p)-1], p[Len(p)] >> \in Mp4Suffixes

\* C10 amended: the reported path of a successful video job is the requested
\* path when that ends in ".mp4" (in any case), and the requested path with
\* ".mp4" appended otherwise (also for .mov and .mkv); it is the path the mux
\* wrote.
VideoOutputEndsInMp4 ==
    (IsVideoJob /\ pc = "succeeded") =>
        /\ Reported = IF HasMp4Suffix(req_out) THEN req_out ELSE req_out \o DotMp4
        /\ Reported \in DOMAIN fs
        /\ fs[Reported] = "complete"
        /\ Called("mux")

\* a requested .mov path is reported with .mp4 appended
VideoOutputEndsInMp4Witness ==
    /\ IsVideoJob
    /\ pc = "succeeded"
    /\ req_out = <<"o",".","m","o","v">>
    /\ Reported = <<"o",".","m","o","v",".","m","p","4">>

----------------------------------------------------------------------------
(* C11 *)

\* the spellings of a trailing ".wav", whatever the case of its letters
WavSuffixes ==
    { <<".", w, a, v>> : w \in {"w", "W"}, a \in {"a", "A"}, v \in {"v", "V"} }

HasWavSuffix(p) ==
    /\ Len(p) >= 4
    /\ << p[Len(p)-3], p[Len(p)-2], p[Len(p)-1], p[Len(p)] >> \in WavSuffixes

\* C11: the path reported by a successful audio job is the path the output
\* was written to, the only file the job leaves; it is the requested path
\* when that has the extension .wav or .mp3 (in any case), and otherwise the
\* corrected path, which ends in .wav.
AudioReportedPathWritten ==
    (IsAudioJob /\ pc = "succeeded") =>
        /\ DOMAIN fs = {Reported}
        /\ fs[Reported] = "complete"
        /\ \E i \in 1..Len(calls) :
              /\ calls[i].op \in {"sf.write", "export"}
              /\ calls[i].path = Reported
              /\ calls[i].rc = 0
        /\ IF Lower(SplitExt(req_out)) \in {DotWav, DotMp3}
           THEN Reported = req_out
           ELSE /\ HasWavSuffix(Reported)
                /\ Reported \in {req_out, req_out \o DotWav}

\* a requested .ogg path is written and reported with .wav appended
AudioReportedPathWitness ==
    /\ IsAudioJob
    /\ pc = "succeeded"
    /\ req_out = <<"o",".","o","g","g">>
    /\ Reported = <<"o",".","o","g","g",".","w","a","v">>
    /\ Reported \in DOMAIN fs

----------------------------------------------------------------------------
(* C12 *)

Max(a, b) == IF a >= b THEN a ELSE b

\* C12: the k-th result is the transform of the k-th input channel, handed
\* over with length max(n, 2048): its first n samples are the input's, in
\* order, the rest are zero, and a buffer of 2048 samples or more is handed
\* over as it is; once the loop is over there is one result per channel.
PaddedToWindow ==
    /\ Len(processed_channels) <= Len(y_list)
    /\ pc = "a_encode" =>
          (Len(processed_channels) = Len(y_list) /\ Len(y_list) >= 1)
    /\ \A k \in 1..Len(processed_channels) :
          LET x == y_list[k]
              b == processed_channels[k].of
              n == Len(x)
          IN  /\ Len(b) = Max(n, 2048)
              /\ \A i \in 1..n : b[i] = x[i]
              /\ \A i \in (n+1)..Len(b) : b[i] = 0
              /\ n >= 2048 => b = x

\* two channels of one sample each went through the loop
PaddedToWindowWitness ==
    /\ pc = "a_encode"
    /\ Len(y_list) = 2
    /\ Len(processed_channels) = 2
    /\ Len(y_list[2]) = 1
    /\ y_list[1] # y_list[2]
    /\ Len(processed_channels[2].of) = 2048

----------------------------------------------------------------------------
(* C13 *)

\* a worker is executing run()
WorkerActive == pc \notin {"none", "succeeded", "failed"}

\* a worker executing run() is the app's thread and reports isRunning()
ActiveIsRunning == WorkerActive => (thread = "thread" /\ running)

\* a step that starts a worker does so while none is active or running
StartsOnlyWhenFree ==
    started' # started =>
        /\ ~WorkerActive
        /\ ~running
        /\ started' = started + 1
        /\ pc' = "idle"
        /\ running'

\* a submission made while a worker is running is refused: it starts no
\* worker and changes neither the worker, its configuration, nor the display
RefusalChangesNothing ==
    refused' # refused =>
        /\ running
        /\ thread = "thread"
        /\ started' = started
        /\ UNCHANGED <<workervars, thread, running, progress, status_label>>

\* C13: under every interleaving of run_job with the worker's steps and the
\* delivery of its signals, at most one worker runs at a time: a worker is
\* started only when none is running, and a submission made while one is
\* running is refused and leaves the running job, its configuration and the
\* displayed progress as they were.
SingleWorker ==
    /\ []ActiveIsRunning
    /\ [][StartsOnlyWhenFree /\ RefusalChangesNothing]_vars

\* a submission was refused while the first worker ran, and a second worker
\* was started after the first had finished
SingleWorkerWitness ==
    /\ started = 2
    /\ refused = 1
    /\ WorkerActive
    /\ running

====
